---- MODULE Spec2Model ----
(***************************************************************************)
(* Credential store and auth gateway of SmartBill Connect (src/app.py).    *)
(*                                                                         *)
(* The remote object users/credentials.json is the variable doc.  Callers  *)
(* run save_user and authenticate; each call is split at its storage       *)
(* round trips (get_object, put_object), which are the only points where   *)
(* another caller can interleave.  The outcome of every storage call is    *)
(* chosen by the environment: success, NoSuchKey (get only, when the       *)
(* object is absent) or any other exception.                               *)
(***************************************************************************)
EXTENDS Naturals, Sequences, FiniteSets

(* ------------------------------ bounds --------------------------------- *)

\* Number of calls (save_user or authenticate) started in one sequential
\* behaviour.
MaxCalls == 3

\* Number of calls started in one concurrent behaviour.
MaxConcurrentCalls == 2

\* Number of distinct usernames drawn from UserPool.
MaxUsers == 2

\* Number of distinct passwords drawn from PasswordPool.
MaxPasswords == 2

UserPool == <<"alice", "bob", "carol">>

PasswordPool == <<"pw1", "pw2", "pw3">>

\* The sessions of the page that call save_user and authenticate.
Callers == {"session1", "session2"}

Usernames == {UserPool[i] : i \in 1..MaxUsers}

Passwords == {PasswordPool[i] : i \in 1..MaxPasswords}

(* --------------------------- pure functions ---------------------------- *)

\* hashlib.sha256(password.encode()).hexdigest(), tabulated on PasswordPool.
hash_password(password) ==
    CASE password = "pw1" ->
           "c592df4a86933b92addc9842402ddf198c638ea9be58916ee6e3734e1e3152f8"
      [] password = "pw2" ->
           "93915a0a4bf8f634cb1856494dd4304472ad46b9827f541f76b6761c49cc55b0"
      [] password = "pw3" ->
           "072aa9e9fb9d5162e465d3321530463caecd59b156676fe3071997cdc1017816"

\* The object at S3_USERS_KEY before any put_object: get_object raises
\* NoSuchKey.
NoSuchKey == [exists |-> FALSE, body |-> {}]

\* The object at S3_USERS_KEY holding the text body.
Object(body) == [exists |-> TRUE, body |-> body]

\* The dict literal {}.
EmptyDict == [k \in {} |-> ""]

\* json.dumps(users_data): the members of the JSON object, one per key.
json_dumps(users_data) == {<<k, users_data[k]>> : k \in DOMAIN users_data}

\* json.loads(body): the dict with one key per member of the JSON object.
json_loads(body) ==
    [k \in {m[1] : m \in body} |-> (CHOOSE m \in body : m[1] = k)[2]]

\* Outcomes s3_client.get_object can have on the object.
GetOutcomes(object) ==
    IF object.exists THEN {"ok", "Exception"} ELSE {"NoSuchKey", "Exception"}

\* Outcomes s3_client.put_object can have.
PutOutcomes == {"ok", "Exception"}

\* Bug: NoSuchKey is not caught on its own and falls to the handler of the
\* other exceptions, which shows a notice.
get_users_from_s3_noisy(outcome, object) ==
    CASE outcome = "ok"        -> [users |-> json_loads(object.body),
                                   notices |-> 0]
      [] outcome = "NoSuchKey" -> [users |-> EmptyDict, notices |-> 1]
      [] outcome = "Exception" -> [users |-> EmptyDict, notices |-> 1]

\* Bug: after an exception the get is tried again and its result returned.
get_users_from_s3_retry(outcome, object) ==
    CASE outcome = "ok"        -> [users |-> json_loads(object.body),
                                   notices |-> 0]
      [] outcome = "NoSuchKey" -> [users |-> EmptyDict, notices |-> 0]
      [] outcome = "Exception" -> [users |-> json_loads(object.body),
                                   notices |-> 1]

\* get_users_from_s3 under a get_object outcome: the dict returned and the
\* number of st.error notices shown.
get_users_from_s3(outcome, object) ==
    CASE outcome = "ok"        -> [users |-> json_loads(object.body),
                                   notices |-> 0]
      [] outcome = "NoSuchKey" -> [users |-> EmptyDict, notices |-> 0]
      [] outcome = "Exception" -> [users |-> EmptyDict, notices |-> 1]

\* Bug: the exception is raised after the object was written.
save_users_to_s3_torn(outcome, users_data, object) ==
    CASE outcome = "ok" ->
           [ret |-> TRUE, object |-> Object(json_dumps(users_data)),
            notices |-> 0]
      [] outcome = "Exception" ->
           [ret |-> FALSE, object |-> Object(json_dumps(users_data)),
            notices |-> 1]

\* Bug: the put adds its members to those the object holds instead of
\* replacing the object.
save_users_to_s3_merge(outcome, users_data, object) ==
    CASE outcome = "ok" ->
           [ret |-> TRUE,
            object |-> Object(object.body \cup json_dumps(users_data)),
            notices |-> 0]
      [] outcome = "Exception" ->
           [ret |-> FALSE, object |-> object, notices |-> 1]

\* Bug: the put leaves the value of a key the object already holds.
save_users_to_s3_keep(outcome, users_data, object) ==
    CASE outcome = "ok" ->
           [ret |-> TRUE,
            object |-> Object(object.body \cup
                         {m \in json_dumps(users_data) :
                             \A n \in object.body : n[1] # m[1]}),
            notices |-> 0]
      [] outcome = "Exception" ->
           [ret |-> FALSE, object |-> object, notices |-> 1]

\* save_users_to_s3 under a put_object outcome: the value returned, the
\* object afterwards and the number of st.error notices shown.
save_users_to_s3(outcome, users_data, object) ==
    CASE outcome = "ok" ->
           [ret |-> TRUE, object |-> Object(json_dumps(users_data)),
            notices |-> 0]
      [] outcome = "Exception" ->
           [ret |-> FALSE, object |-> object, notices |-> 1]

\* Bug: the membership test is dropped, every username is taken as new.
NotInUsersAlways(users, username) == TRUE

\* username not in users
NotInUsers(users, username) == username \notin DOMAIN users

\* Bug: the password is stored as given.
SetUserPlain(users, username, password) ==
    [k \in DOMAIN users \cup {username} |->
        IF k = username THEN password ELSE users[k]]

\* Bug: the hash is salted with the username.
SetUserSalted(users, username, password) ==
    [k \in DOMAIN users \cup {username} |->
        IF k = username THEN username \o "$" \o hash_password(password)
        ELSE users[k]]

\* users[username] = hash_password(password)
SetUser(users, username, password) ==
    [k \in DOMAIN users \cup {username} |->
        IF k = username THEN hash_password(password) ELSE users[k]]

\* Bug: the stored value is compared with the plain-text password.
CheckUserPlain(users, username, password) ==
    /\ username \in DOMAIN users
    /\ users[username] = password

\* Bug: only the presence of the username is checked.
CheckUserPresent(users, username, password) == username \in DOMAIN users

\* Bug: the hash is looked up among the stored values of all users.
CheckUserAnyone(users, username, password) ==
    \E k \in DOMAIN users : users[k] = hash_password(password)

\* username in users and users[username] == hashed_password
CheckUser(users, username, password) ==
    /\ username \in DOMAIN users
    /\ users[username] = hash_password(password)

(* ------------------------------- state --------------------------------- *)

VARIABLES
    doc,        \* the object at S3_USERS_KEY: Object(body) or NoSuchKey
    call,       \* per caller: the call in progress and its locals
    ncalls,     \* number of calls started
    called,     \* <<username, password>> of every save_user call started
    returned,   \* the save_user calls that have returned, with their result
    failed,     \* some get_object or put_object has raised an exception
                \* other than NoSuchKey
    last,       \* the call that returned most recently
    lastput,    \* the caller whose put_object succeeded most recently
    recent      \* results of the get_users_from_s3 calls since the last
                \* successful put_object (the last two of them)

vars == <<doc, call, ncalls, called, returned, failed, last, lastput, recent>>

Idle ==
    [pc |-> "idle", op |-> "none", username |-> "", password |-> "",
     users |-> EmptyDict, loaded |-> EmptyDict, get |-> "none",
     put |-> "none", result |-> FALSE, notices |-> 0, present |-> FALSE,
     changed |-> FALSE, gets |-> 0, puts |-> 0]

\* What is remembered of a call that has returned.
Summary(k) ==
    [op |-> k.op, username |-> k.username, get |-> k.get, put |-> k.put,
     present |-> k.present]

Active == {c \in Callers : call[c].pc # "idle"}

\* Usernames of the members of an object.
Keys(object) == {m[1] : m \in object.body}

\* The value stored under username in an object that has it.
Stored(object, username) == (CHOOSE m \in object.body : m[1] = username)[2]

Init ==
    /\ doc \in {NoSuchKey, Object(json_dumps(EmptyDict))}
    /\ call = [c \in Callers |-> Idle]
    /\ ncalls = 0
    /\ called = {}
    /\ returned = {}
    /\ failed = FALSE
    /\ last = Summary(Idle)
    /\ lastput = "none"
    /\ recent = <<>>

Begin(c, op, username, password) ==
    /\ call[c].pc = "idle"
    /\ ncalls' = ncalls + 1
    /\ call' = [call EXCEPT ![c] =
                   [Idle EXCEPT !.pc = "get_object", !.op = op,
                                !.username = username,
                                !.password = password,
                                !.present = username \in Keys(doc)]]

\* The presentation layer calls save_user(username, password).
BeginSaveUser(c, username, password) ==
    /\ Begin(c, "save_user", username, password)
    /\ called' = called \cup {<<username, password>>}
    /\ UNCHANGED <<doc, returned, failed, last, lastput, recent>>

\* The presentation layer calls authenticate(username, password).
BeginAuthenticate(c, username, password) ==
    /\ Begin(c, "authenticate", username, password)
    /\ UNCHANGED <<doc, called, returned, failed, last, lastput, recent>>

Remember(r, outcome) ==
    LET e == [users |-> r.users, outcome |-> outcome]
    IN  IF Len(recent) < 2 THEN Append(recent, e) ELSE <<recent[2], e>>

\* save_user, from its get_users_from_s3 call up to its put_object call
\* (or to its return, when the username is in the dict).
SaveUserLoad(c) ==
    /\ call[c].pc = "get_object"
    /\ call[c].op = "save_user"
    /\ \E outcome \in GetOutcomes(doc) :
         LET r == get_users_from_s3(outcome, doc)
             l == [call[c] EXCEPT !.get = outcome, !.loaded = r.users,
                                  !.notices = r.notices, !.gets = @ + 1]
         IN  /\ call' = [call EXCEPT ![c] =
                   IF NotInUsers(r.users, call[c].username)
                   THEN [l EXCEPT !.pc = "put_object",
                                  !.users = SetUser(r.users, call[c].username,
                                                    call[c].password)]
                   ELSE [l EXCEPT !.pc = "return", !.users = r.users,
                                  !.result = FALSE]]
             /\ recent' = Remember(r, outcome)
             /\ failed' = (failed \/ outcome = "Exception")
    /\ UNCHANGED <<doc, ncalls, called, returned, last, lastput>>

\* Bug: a put_object that raised is tried once more.
SaveUserStore_retry(c) ==
    /\ call[c].pc = "put_object"
    /\ \E outcome \in PutOutcomes :
         LET s == save_users_to_s3(outcome, call[c].users, doc)
         IN  /\ doc' = s.object
             /\ call' = [call EXCEPT ![c].pc = IF outcome = "Exception"
                                                 /\ call[c].puts = 0
                                              THEN "put_object"
                                              ELSE "return",
                                     ![c].put = outcome,
                                     ![c].result = s.ret,
                                     ![c].changed = (s.object # doc),
                                     ![c].notices = @ + s.notices,
                                     ![c].puts = @ + 1]
             /\ recent' = IF outcome = "ok" THEN <<>> ELSE recent
             /\ lastput' = IF outcome = "ok" THEN c ELSE lastput
             /\ failed' = (failed \/ outcome = "Exception")
    /\ UNCHANGED <<ncalls, called, returned, last>>

\* save_user, its save_users_to_s3 call.
SaveUserStore(c) ==
    /\ call[c].pc = "put_object"
    /\ \E outcome \in PutOutcomes :
         LET s == save_users_to_s3(outcome, call[c].users, doc)
         IN  /\ doc' = s.object
             /\ call' = [call EXCEPT ![c].pc = "return", ![c].put = outcome,
                                     ![c].result = s.ret,
                                     ![c].changed = (s.object # doc),
                                     ![c].notices = @ + s.notices,
                                     ![c].puts = @ + 1]
             /\ recent' = IF outcome = "ok" THEN <<>> ELSE recent
             /\ lastput' = IF outcome = "ok" THEN c ELSE lastput
             /\ failed' = (failed \/ outcome = "Exception")
    /\ UNCHANGED <<ncalls, called, returned, last>>

\* Bug: authenticate creates the empty document when there is none.
AuthenticateLoad_bootstrap(c) ==
    /\ call[c].pc = "get_object"
    /\ call[c].op = "authenticate"
    /\ \E outcome \in GetOutcomes(doc) :
         LET r == get_users_from_s3(outcome, doc)
         IN  /\ call' = [call EXCEPT ![c] =
                   [@ EXCEPT !.pc = "return", !.get = outcome,
                             !.loaded = r.users, !.users = r.users,
                             !.notices = r.notices, !.gets = @ + 1,
                             !.result = CheckUser(r.users, call[c].username,
                                                  call[c].password)]]
             /\ recent' = Remember(r, outcome)
             /\ failed' = (failed \/ outcome = "Exception")
             /\ doc' = IF outcome = "NoSuchKey"
                       THEN Object(json_dumps(EmptyDict)) ELSE doc
    /\ UNCHANGED <<ncalls, called, returned, last, lastput>>

\* authenticate, whole: its get_users_from_s3 call and the comparison.
AuthenticateLoad(c) ==
    /\ call[c].pc = "get_object"
    /\ call[c].op = "authenticate"
    /\ \E outcome \in GetOutcomes(doc) :
         LET r == get_users_from_s3(outcome, doc)
         IN  /\ call' = [call EXCEPT ![c] =
                   [@ EXCEPT !.pc = "return", !.get = outcome,
                             !.loaded = r.users, !.users = r.users,
                             !.notices = r.notices, !.gets = @ + 1,
                             !.result = CheckUser(r.users, call[c].username,
                                                  call[c].password)]]
             /\ recent' = Remember(r, outcome)
             /\ failed' = (failed \/ outcome = "Exception")
    /\ UNCHANGED <<doc, ncalls, called, returned, last, lastput>>

\* The call returns its result to the presentation layer.
Return(c) ==
    /\ call[c].pc = "return"
    /\ returned' = IF call[c].op = "save_user"
                   THEN returned \cup {[username |-> call[c].username,
                                        password |-> call[c].password,
                                        ret |-> call[c].result]}
                   ELSE returned
    /\ last' = Summary(call[c])
    /\ call' = [call EXCEPT ![c] = Idle]
    /\ UNCHANGED <<doc, ncalls, called, failed, lastput, recent>>

\* Sequential execution: a call starts only when no call is in progress;
\* every storage outcome can happen.
Next ==
    \E c \in Callers :
        \/ /\ Active = {}
           /\ ncalls < MaxCalls
           /\ \E u \in Usernames, p \in Passwords : BeginSaveUser(c, u, p)
        \/ /\ Active = {}
           /\ ncalls < MaxCalls
           /\ \E u \in Usernames, p \in Passwords : BeginAuthenticate(c, u, p)
        \/ SaveUserLoad(c)
        \/ SaveUserStore(c)
        \/ AuthenticateLoad(c)
        \/ Return(c)

Spec == Init /\ [][Next]_vars

\* Concurrent execution: the calls of several callers interleave at their
\* storage round trips.
NextConcurrent ==
    \E c \in Callers :
        \/ /\ ncalls < MaxConcurrentCalls
           /\ \E u \in Usernames, p \in Passwords : BeginSaveUser(c, u, p)
        \/ /\ ncalls < MaxConcurrentCalls
           /\ \E u \in Usernames, p \in Passwords : BeginAuthenticate(c, u, p)
        \/ SaveUserLoad(c)
        \/ SaveUserStore(c)
        \/ AuthenticateLoad(c)
        \/ Return(c)

Concurrent == Init /\ [][NextConcurrent]_vars

(* ------------------------------ claims --------------------------------- *)

AtReturn(c, op) == call[c].pc = "return" /\ call[c].op = op

\* <<username, password>> of the save_user calls that have returned True.
Registered == {<<r.username, r.password>> : r \in {x \in returned : x.ret}}

\* The save_user calls that have returned False for a username registered
\* with another password.
Duplicates ==
    {r \in returned : /\ ~r.ret
                      /\ \E q \in Registered :
                            q[1] = r.username /\ q[2] # r.password}

\* C1. Round trip: in sequential execution with every storage call
\* succeeding, save_user(u, p) for a username not in the stored document
\* returns True, and an authenticate(u, p) after a save_user(u, p) that
\* returned True returns True.
C1_RoundTrip ==
    ~failed =>
        \A c \in Callers :
            /\ (AtReturn(c, "save_user") /\ ~call[c].present)
                  => call[c].result
            /\ ( /\ AtReturn(c, "authenticate")
                 /\ <<call[c].username, call[c].password>> \in Registered )
                  => call[c].result

C1_Witness ==
    \E c \in Callers :
        /\ ~failed
        /\ AtReturn(c, "authenticate")
        /\ <<call[c].username, call[c].password>> \in Registered
        /\ call[c].result

\* C2. Duplicate registration rejected: in sequential execution with every
\* storage call succeeding, once save_user(u, p) has returned True a later
\* save_user(u, p') returns False, issues no put_object and leaves the
\* value stored for u equal to hash_password(p); an authenticate(u, q)
\* after the rejected call returns True exactly when q = p.
C2_DuplicateRejected ==
    ~failed =>
        \A c \in Callers :
            \A q \in Registered :
                (q[1] = call[c].username) =>
                    /\ AtReturn(c, "save_user") =>
                          /\ ~call[c].result
                          /\ call[c].put = "none"
                          /\ ~call[c].changed
                          /\ q[1] \in Keys(doc)
                          /\ Stored(doc, q[1]) = hash_password(q[2])
                    /\ ( /\ AtReturn(c, "authenticate")
                         /\ \E r \in Duplicates : r.username = q[1] )
                          => (call[c].result = (call[c].password = q[2]))

C2_Witness ==
    \E c \in Callers :
        /\ ~failed
        /\ AtReturn(c, "authenticate")
        /\ \E r \in Duplicates : r.username = call[c].username
        /\ <<call[c].username, call[c].password>> \in Registered
        /\ call[c].result

\* <<username, password>> of the save_user calls whose result is True,
\* returned or about to return.
Succeeded ==
    Registered \cup
    {<<call[c].username, call[c].password>> :
        c \in {d \in Callers : AtReturn(d, "save_user") /\ call[d].result}}

\* The hash of password is the hash of no password username has been
\* registered with.
NoHashOf(username, password) ==
    \A q \in Succeeded :
        (q[1] = username) => (hash_password(q[2]) # hash_password(password))

\* C3. Wrong password rejected: authenticate(u, q) returns True only if the
\* dict it loaded has u with the value hash_password(q); so after a
\* save_user(u, p) that returned True, when no registration of u that has
\* succeeded has the hash of q, authenticate(u, q) returns False.
C3_WrongPasswordRejected ==
    \A c \in Callers :
        AtReturn(c, "authenticate") =>
            /\ call[c].result =>
                  /\ call[c].username \in DOMAIN call[c].loaded
                  /\ call[c].loaded[call[c].username]
                        = hash_password(call[c].password)
            /\ ( /\ \E q \in Succeeded : q[1] = call[c].username
                 /\ NoHashOf(call[c].username, call[c].password) )
                  => ~call[c].result

C3_Witness ==
    \E c \in Callers :
        /\ AtReturn(c, "authenticate")
        /\ call[c].get = "ok"
        /\ call[c].username \in DOMAIN call[c].loaded
        /\ \E q \in Registered : q[1] = call[c].username
        /\ NoHashOf(call[c].username, call[c].password)
        /\ ~call[c].result

\* C4. Unknown user rejected: from an absent or empty document, under
\* every interleaving and every storage outcome, authenticate(u, p) returns
\* False for a username u no save_user call has been made for.
C4_UnknownUserRejected ==
    \A c \in Callers :
        ( /\ AtReturn(c, "authenticate")
          /\ \A q \in called : q[1] # call[c].username )
           => ~call[c].result

C4_Witness ==
    \E c \in Callers :
        /\ AtReturn(c, "authenticate")
        /\ \A q \in called : q[1] # call[c].username
        /\ call[c].get = "ok"
        /\ \E k \in DOMAIN call[c].loaded :
              call[c].loaded[k] = hash_password(call[c].password)
        /\ ~call[c].result

\* C5. Empty store bootstrap: when get_object reports NoSuchKey,
\* get_users_from_s3 returns the empty dict and shows no notice, and a
\* save_user(u, p) whose put_object then succeeds returns True and leaves a
\* document with the single entry u -> hash_password(p).
C5_EmptyStoreBootstrap ==
    \A c \in Callers :
        (call[c].get = "NoSuchKey") =>
            /\ call[c].loaded = EmptyDict
            /\ call[c].notices = (IF call[c].put = "Exception" THEN 1 ELSE 0)
            /\ (AtReturn(c, "save_user") /\ call[c].put = "ok") =>
                  /\ call[c].result
                  /\ doc = Object({<<call[c].username,
                                     hash_password(call[c].password)>>})

C5_Witness ==
    \E c \in Callers :
        /\ AtReturn(c, "save_user")
        /\ call[c].get = "NoSuchKey"
        /\ call[c].put = "ok"
        /\ call[c].result
        /\ doc.exists

\* C6. Save failure: save_user returns the result of save_users_to_s3
\* when the username is not in the dict it loaded; when put_object fails
\* save_user returns False and the document is unchanged, so that the
\* username is not registered: an authenticate for it that follows returns
\* False.
C6_SaveFailure ==
    \A c \in Callers :
        /\ (AtReturn(c, "save_user")
              /\ call[c].username \notin DOMAIN call[c].loaded)
              => (call[c].result = (call[c].put = "ok"))
        /\ (call[c].put = "Exception")
              => (~call[c].result /\ ~call[c].changed)
        /\ ( /\ AtReturn(c, "authenticate")
             /\ last.op = "save_user"
             /\ last.put = "Exception"
             /\ last.username = call[c].username )
              => ~call[c].result

\* C7. Load failure is collapsed: when get_object raises another exception
\* than NoSuchKey, get_users_from_s3 returns the empty dict and
\* authenticate(u, p) returns False, also for a user u that the document
\* has with the hash of p.
C7_LoadFailureCollapsed ==
    \A c \in Callers :
        (call[c].get = "Exception") =>
            /\ call[c].loaded = EmptyDict
            /\ call[c].pc # "get_object"
            /\ AtReturn(c, "authenticate") => ~call[c].result

C7_Witness ==
    \E c \in Callers :
        /\ AtReturn(c, "authenticate")
        /\ call[c].get = "Exception"
        /\ call[c].username \in Keys(doc)
        /\ Stored(doc, call[c].username) = hash_password(call[c].password)
        /\ ~call[c].result

\* C8 as stated. Idempotent load: two get_users_from_s3 calls with no
\* put to the document between them return equal dicts.
C8_IdempotentLoad ==
    (Len(recent) = 2) => (recent[1].users = recent[2].users)

\* C8. Idempotent load, amended: two get_users_from_s3 calls with no put to
\* the document between them return equal dicts when the get_object of
\* neither, or of both, raises another exception than NoSuchKey.
C8_IdempotentLoadSameOutcome ==
    ( /\ Len(recent) = 2
      /\ (recent[1].outcome = "Exception") = (recent[2].outcome = "Exception") )
       => (recent[1].users = recent[2].users)

C8_Witness ==
    /\ Len(recent) = 2
    /\ recent[1].outcome = "ok"
    /\ recent[2].outcome = "ok"
    /\ DOMAIN recent[1].users # {}
    /\ recent[1].users = recent[2].users

\* C9. Stored values are hashes: from an absent or empty document, under
\* every interleaving and every storage outcome, each value the document
\* has under a key u is hash_password(p) for a password p given to a
\* save_user(u, p) call, and is the plain text of no password given.
C9_StoredValuesAreHashes ==
    \A m \in doc.body :
        /\ \E q \in called : q[1] = m[1] /\ m[2] = hash_password(q[2])
        /\ \A q \in called : m[2] # q[2]

C9_Witness ==
    /\ Cardinality(doc.body) = 2
    /\ \A m \in doc.body :
          \E q \in called : q[1] = m[1] /\ m[2] = hash_password(q[2])

\* C10. The hash depends on the password alone: in sequential execution
\* with every storage call succeeding, after save_user(u1, p) and
\* save_user(u2, p) have both returned True for distinct u1 and u2, the
\* document holds equal values for u1 and u2.
C10_SameHashForSamePassword ==
    ~failed =>
        \A q1 \in Registered : \A q2 \in Registered :
            (q1[1] # q2[1] /\ q1[2] = q2[2]) =>
                /\ {q1[1], q2[1]} \subseteq Keys(doc)
                /\ Stored(doc, q1[1]) = Stored(doc, q2[1])

C10_Witness ==
    /\ ~failed
    /\ \E q1 \in Registered : \E q2 \in Registered :
          /\ q1[1] # q2[1]
          /\ q1[2] = q2[2]
          /\ {q1[1], q2[1]} \subseteq Keys(doc)
          /\ Stored(doc, q1[1]) = Stored(doc, q2[1])

\* Callers c and d are both about to return from a save_user whose
\* put_object succeeded, each having loaded a dict without the other's
\* username and written one without it: both loads preceded both saves.
Raced(c, d) ==
    /\ c # d
    /\ AtReturn(c, "save_user") /\ AtReturn(d, "save_user")
    /\ call[c].put = "ok" /\ call[d].put = "ok"
    /\ call[c].get # "Exception" /\ call[d].get # "Exception"
    /\ call[c].username \notin DOMAIN call[d].loaded
    /\ call[d].username \notin DOMAIN call[c].loaded

\* C11. Lost registration under concurrency: when two concurrent save_user
\* calls for different new usernames u1 and u2 have both loaded before
\* either saved, and every storage call succeeded, both return True, the
\* document holds only one of u1 and u2, and the other user does not
\* authenticate with its password.
C11_LostRegistration ==
    \A c \in Callers : \A d \in Callers :
        (Raced(c, d) /\ call[c].username # call[d].username) =>
            /\ call[c].result /\ call[d].result
            /\ \E w \in {c, d} : \A l \in {c, d} \ {w} :
                  /\ call[w].username \in Keys(doc)
                  /\ call[l].username \notin Keys(doc)
                  /\ ~CheckUser(json_loads(doc.body), call[l].username,
                                call[l].password)

C11_Witness ==
    \E c \in Callers : \E d \in Callers :
        /\ Raced(c, d)
        /\ call[c].username # call[d].username
        /\ ~failed
        /\ call[c].result /\ call[d].result
        /\ call[c].username \in Keys(doc)
        /\ call[d].username \notin Keys(doc)

\* C12. Same-username race is last-write-wins: when two concurrent
\* save_user(u, p1) and save_user(u, p2) calls with p1 # p2 have both loaded
\* before either saved, both return True, and the document holds one entry
\* for u, with the hash of the call whose put_object landed last: only that
\* call's password passes the authenticate comparison.
C12_LastWriteWins ==
    \A c \in Callers : \A d \in Callers :
        ( /\ Raced(c, d)
          /\ call[c].username = call[d].username
          /\ call[c].password # call[d].password ) =>
            /\ call[c].result /\ call[d].result
            /\ lastput \in {c, d}
            /\ Cardinality({m \in doc.body : m[1] = call[c].username}) = 1
            /\ \A e \in {c, d} :
                  CheckUser(json_loads(doc.body), call[e].username,
                            call[e].password) = (e = lastput)

C12_Witness ==
    \E c \in Callers : \E d \in Callers :
        /\ Raced(c, d)
        /\ ~failed
        /\ call[c].username = call[d].username
        /\ call[c].password # call[d].password
        /\ call[c].result /\ call[d].result
        /\ lastput = d
        /\ Stored(doc, call[d].username) = hash_password(call[d].password)

\* C13. At-most-once storage access: a save_user call issues one
\* get_object and then at most one put_object, the put only when the
\* username is not in the dict it loaded, and repeats neither after a
\* failure; an authenticate call issues one get_object and no put_object.
C13_AtMostOnce ==
    \A c \in Callers :
        /\ call[c].gets <= 1
        /\ call[c].puts <= 1
        /\ (call[c].puts = 1) => (call[c].gets = 1)
        /\ (call[c].pc \in {"put_object", "return"}) => (call[c].gets = 1)
        /\ AtReturn(c, "save_user") =>
              ((call[c].puts = 1)
                  = (call[c].username \notin DOMAIN call[c].loaded))
        /\ (call[c].op = "authenticate") => (call[c].puts = 0)

C13_Witness ==
    \E c \in Callers :
        /\ AtReturn(c, "save_user")
        /\ call[c].get = "Exception"
        /\ call[c].put = "Exception"
        /\ call[c].gets = 1
        /\ call[c].puts = 1

\* C14. Registration preserves existing users: in sequential execution,
\* whatever the outcomes of its get_object and put_object, a save_user call
\* removes or changes the document's entry of no other username.
C14_PreservesExistingUsers ==
    [][\A c \in Callers :
          (call[c].pc = "put_object" /\ call'[c].pc = "return") =>
              \A m \in doc.body :
                  (m[1] # call[c].username) => (m \in doc'.body)]_vars

\* C15. authenticate is read-only: whatever its arguments, its result and
\* the outcome of its get_object, an authenticate call issues no put_object
\* and no step of it changes the document.
C15_AuthenticateReadOnly ==
    /\ [](\A c \in Callers :
            (call[c].op = "authenticate") =>
                /\ call[c].pc # "put_object"
                /\ call[c].put = "none"
                /\ call[c].puts = 0)
    /\ [][\A c \in Callers :
            (call[c].op = "authenticate" /\ call'[c] # call[c])
                => (doc' = doc)]_vars

C15_Witness ==
    \E c \in Callers :
        /\ AtReturn(c, "authenticate")
        /\ call[c].get = "NoSuchKey"
        /\ call[c].gets = 1
        /\ ~doc.exists

====
